---- MODULE Spec2Model ----
(***************************************************************************)
(* Singularity: the agent loop (app.py process_chat / call_function), the  *)
(* quota-based model selector and the per-user rate limiter (database.py), *)
(* and the two sandbox tools (functions/write_files.py,                    *)
(* functions/run_python_file.py).                                          *)
(*                                                                         *)
(* Python strings that the code inspects character by character (paths,    *)
(* file contents) are sequences of one-character strings, so that          *)
(* str.startswith, str.endswith, os.path.join and os.path.abspath are      *)
(* computed the way the library computes them.                             *)
(***************************************************************************)
EXTENDS Integers, Sequences, FiniteSets, TLC

VARIABLES
    files,          \* file system: absolute path |-> content, for every regular file
    dirs,           \* file system: the set of existing directories (absolute paths)
    lastCall,       \* tools: the function_call_part of the latest call_function
    lastOutcome,    \* tools: what that call_function returned or raised
    lastSpawn,      \* tools: the subprocesses that call started (script paths)
    api_requests,   \* table api_requests: <<model, utc_date>> |-> request_count
    today,          \* the current UTC date, as a day number
    wpc,            \* quota callers: where each one is in its loop iteration
    wlocal,         \* quota callers: lite_count, current_model, utc_date, new count
    writeLock,      \* the connection holding SQLite's write lock, or NoProc
    incDone,        \* <<model, utc_date>> |-> increment_request_count calls completed
    wrounds,        \* concurrent callers: loop iterations started so far
    user_rate_limits, \* table user_rate_limits: rows [user_id, request_time], by id
    now,            \* the UTC clock, in ticks
    rpc,            \* chat handler: where the request being handled is
    ruser,          \* chat handler: the user_id of that request
    lastCheck,      \* chat handler: is_allowed, wait_seconds, and the clock at the check
    denials,        \* user_id |-> the instant up to which the denials so far told
                    \* that user to wait (0 when that instant has passed)
    hpc,            \* concurrent chat handlers: where each one is (idle, allowed,
                    \* denied) and the user_id of its request
    sessions,       \* app.sessions: session_id |-> list of turns
    cpc,            \* process_chat: "idle", "loop" or "returned"
    request,        \* process_chat: its arguments [session_id, message]
    messages,       \* process_chat: the working history
    function_calls_made, \* process_chat: the tool-call records
    count,          \* process_chat: the loop counter
    result,         \* process_chat: what it returned
    trace           \* of this request: the history stored before it, the model
                    \* invocations made, the tier of the latest one, the
                    \* responses that held neither calls nor text, whether an
                    \* invocation raised, the scripts started

toolVars == <<files, dirs, lastCall, lastOutcome, lastSpawn>>
quotaVars == <<api_requests, today, wpc, wlocal, writeLock, incDone, wrounds>>
rateVars == <<user_rate_limits, now, rpc, ruser, lastCheck, denials, hpc>>
chatVars == <<sessions, cpc, request, messages, function_calls_made, count, result, trace>>
vars == <<toolVars, quotaVars, rateVars, chatVars>>

-----------------------------------------------------------------------------
(* Strings                                                                 *)

Slash == <<"/">>
DotDot == <<".", ".">>
Dot == <<".">>
PyExt == <<".", "p", "y">>

\* str.startswith
StartsWith(s, prefix) ==
    /\ Len(prefix) <= Len(s)
    /\ SubSeq(s, 1, Len(prefix)) = prefix

\* str.endswith
EndsWith(s, suffix) ==
    /\ Len(suffix) <= Len(s)
    /\ SubSeq(s, Len(s) - Len(suffix) + 1, Len(s)) = suffix

\* str.split("/"): the pieces between slashes, empty pieces included
RECURSIVE SplitFrom(_, _, _)
SplitFrom(s, i, cur) ==
    IF i > Len(s) THEN <<cur>>
    ELSE IF s[i] = "/" THEN <<cur>> \o SplitFrom(s, i + 1, <<>>)
    ELSE SplitFrom(s, i + 1, Append(cur, s[i]))

Split(s) == SplitFrom(s, 1, <<>>)

\* "/" + "/".join(comps)
RECURSIVE JoinComps(_)
JoinComps(comps) ==
    IF comps = <<>> THEN <<>>
    ELSE Slash \o Head(comps) \o JoinComps(Tail(comps))

PathOf(comps) == IF comps = <<>> THEN Slash ELSE JoinComps(comps)

ButLast(seq) == SubSeq(seq, 1, Len(seq) - 1)

\* posixpath.normpath of an absolute path, as a list of components
RECURSIVE NormComps(_, _)
NormComps(comps, acc) ==
    IF comps = <<>> THEN acc
    ELSE LET c == Head(comps) IN
         IF c = <<>> \/ c = Dot THEN NormComps(Tail(comps), acc)
         ELSE IF c = DotDot
              THEN NormComps(Tail(comps), IF acc = <<>> THEN acc ELSE ButLast(acc))
              ELSE NormComps(Tail(comps), Append(acc, c))

\* os.path.join(a, b)
OsPathJoin(a, b) ==
    IF b # <<>> /\ b[1] = "/" THEN b
    ELSE IF a = <<>> \/ a[Len(a)] = "/" THEN a \o b
    ELSE a \o Slash \o b

\* the process's working directory, against which "./sandbox" is resolved
Cwd == <<"/", "a", "p", "p">>

\* os.path.abspath(p): join with the cwd when relative, then normpath
AbsPath(p) ==
    LET full == IF p # <<>> /\ p[1] = "/" THEN p ELSE OsPathJoin(Cwd, p)
    IN  PathOf(NormComps(Split(full), <<>>))

\* os.path.dirname of a normalised absolute path
DirName(p) == PathOf(ButLast(NormComps(Split(p), <<>>)))

-----------------------------------------------------------------------------
(* File system.  fs is a record [files, dirs]; the operations return the   *)
(* new fs and whether the system call raised OSError.  There are no        *)
(* symbolic links.                                                         *)

\* the kernel's path walk: every component is looked up in a directory that
\* must exist, ".." included (unlike normpath, which only edits the string)
RECURSIVE Walk(_, _, _)
Walk(comps, cur, fs) ==
    IF comps = <<>> THEN [ok |-> TRUE, comps |-> cur]
    ELSE IF PathOf(cur) \notin fs.dirs THEN [ok |-> FALSE, comps |-> cur]
    ELSE LET c == Head(comps) IN
         IF c = <<>> \/ c = Dot THEN Walk(Tail(comps), cur, fs)
         ELSE IF c = DotDot
              THEN Walk(Tail(comps), IF cur = <<>> THEN cur ELSE ButLast(cur), fs)
              ELSE Walk(Tail(comps), Append(cur, c), fs)

Resolve(raw, fs) == Walk(Split(raw), <<>>, fs)

\* os.path.exists
Exists(raw, fs) ==
    LET w == Resolve(raw, fs) IN
    /\ w.ok
    /\ PathOf(w.comps) \in fs.dirs \cup DOMAIN fs.files

\* os.makedirs(path, exist_ok=True) for a normalised absolute path: the
\* ancestors are created top-down; a regular file in the way raises, and the
\* directories created before it stay
RECURSIVE MakeDirsFrom(_, _, _)
MakeDirsFrom(comps, k, fs) ==
    IF k > Len(comps) THEN [ok |-> TRUE, fs |-> fs]
    ELSE LET p == PathOf(SubSeq(comps, 1, k)) IN
         IF p \in fs.dirs THEN MakeDirsFrom(comps, k + 1, fs)
         ELSE IF p \in DOMAIN fs.files THEN [ok |-> FALSE, fs |-> fs]
         ELSE MakeDirsFrom(comps, k + 1, [fs EXCEPT !.dirs = @ \cup {p}])

MakeDirs(path, fs) == MakeDirsFrom(NormComps(Split(path), <<>>), 1, fs)

\* what open(raw, "a") would do
OpenWrite_Append(raw, content, fs) ==
    LET w == Resolve(raw, fs)
        target == PathOf(w.comps)
    IN  IF \/ ~w.ok
           \/ target \in fs.dirs
           \/ PathOf(ButLast(w.comps)) \notin fs.dirs
        THEN [ok |-> FALSE, fs |-> fs]
        ELSE [ok |-> TRUE,
              fs |-> [fs EXCEPT !.files =
                        [p \in DOMAIN fs.files \cup {target} |->
                            IF p = target
                            THEN (IF p \in DOMAIN fs.files THEN fs.files[p] ELSE <<>>)
                                 \o content
                            ELSE fs.files[p]]]]

\* open(raw, "w") followed by f.write(content): creates or truncates
OpenWrite(raw, content, fs) ==
    LET w == Resolve(raw, fs)
        target == PathOf(w.comps)
    IN  IF \/ ~w.ok
           \/ target \in fs.dirs
           \/ PathOf(ButLast(w.comps)) \notin fs.dirs
        THEN [ok |-> FALSE, fs |-> fs]
        ELSE [ok |-> TRUE,
              fs |-> [fs EXCEPT !.files =
                        [p \in DOMAIN fs.files \cup {target} |->
                            IF p = target THEN content ELSE fs.files[p]]]]

-----------------------------------------------------------------------------
(* The tools.  A returned string is a record [tag, path, n]: tag names the *)
(* message, path the file_path quoted in it, n the number it reports.      *)

Msg(tag, path, n) == [tag |-> tag, path |-> path, n |-> n]

\* functions/write_files.py
write_files(working_dir, file_path, content, fs) ==
    LET joined_path == OsPathJoin(working_dir, file_path)
        abs_work_path == AbsPath(working_dir)
        abs_joined == AbsPath(joined_path)
    IN  IF ~StartsWith(abs_joined, abs_work_path)
        THEN [result |-> Msg("CannotWriteOutside", file_path, 0), fs |-> fs]
        ELSE LET made == IF ~Exists(joined_path, fs)
                         THEN MakeDirs(DirName(abs_joined), fs)
                         ELSE [ok |-> TRUE, fs |-> fs]
                 opened == OpenWrite(joined_path, content, made.fs)
             IN  IF ~made.ok THEN [result |-> Msg("Error", file_path, 0), fs |-> made.fs]
                 ELSE IF ~opened.ok
                      THEN [result |-> Msg("Error", file_path, 0), fs |-> made.fs]
                      ELSE [result |-> Msg("SuccessfullyWrote", file_path, Len(content)),
                            fs |-> opened.fs]

\* what a started subprocess can do: end with code 0, end with another code,
\* or run into the 30 s timeout (subprocess.TimeoutExpired)
RunOutcomes == {"exit0", "exit1", "timeout"}

\* a subprocess.run call: the script it started and how the process ended
Started(script, ends) == [script |-> script, ends |-> ends]

Output_NoNotice(returncode, file_path) == Msg("StdoutStderr", file_path, 0)

\* lines 20-24: "STDOUT: ...", "STDERR: ...", and "Process exited with code
\* ..." when the return code is not 0
Output(returncode, file_path) ==
    IF returncode # 0 THEN Msg("StdoutStderrExitCode", file_path, returncode)
    ELSE Msg("StdoutStderr", file_path, 0)

\* functions/run_python_file.py; outcome is used only when a process starts.
\* spawn is the list of processes started (at most one).  python3 given a
\* directory ends with code 1.
run_python_file(working_dir, file_path, outcome, fs) ==
    LET abs_work_path == AbsPath(working_dir)
        abs_joined == AbsPath(OsPathJoin(working_dir, file_path))
    IN  IF ~StartsWith(abs_joined, abs_work_path)
        THEN [result |-> Msg("CannotExecuteOutside", file_path, 0), spawn |-> <<>>]
        ELSE IF ~Exists(abs_joined, fs)
        THEN [result |-> Msg("FileNotFound", file_path, 0), spawn |-> <<>>]
        ELSE IF ~EndsWith(abs_joined, PyExt)
        THEN [result |-> Msg("NotPythonFile", file_path, 0), spawn |-> <<>>]
        ELSE IF outcome = "timeout"
        THEN [result |-> Msg("ErrorExecuting", file_path, 0),
              spawn |-> <<Started(abs_joined, "timeout")>>]
        ELSE LET ends == IF abs_joined \in fs.dirs THEN "exit1" ELSE outcome
                 returncode == IF ends = "exit0" THEN 0 ELSE 1
             IN  [result |-> Output(returncode, file_path),
                  spawn |-> <<Started(abs_joined, ends)>>]

-----------------------------------------------------------------------------
(* The tool dispatcher (app.py).  A function_call_part is a record         *)
(* [name, hasArgs, keys, file_path, content]: hasArgs is FALSE when        *)
(* FunctionCall.args is None, keys are the keys of the args mapping, and   *)
(* file_path / content are the values under those keys when present.       *)

FunctionCall(name, hasArgs, keys, file_path, content) ==
    [name |-> name, hasArgs |-> hasArgs, keys |-> keys,
     file_path |-> file_path, content |-> content]

functions_map == {"run_python_file", "write_files"}

\* os.path.abspath("./sandbox")
WorkingDir == AbsPath(<<".", "/", "s", "a", "n", "d", "b", "o", "x">>)

SandboxPy == <<"s", "a", "n", "d", "b", "o", "x", ".", "p", "y">>

\* f(**args) raises TypeError unless the keywords fit the signature
KeywordsFit(fc) ==
    IF fc.name = "write_files"
    THEN fc.keys = {"file_path", "content"}
    ELSE "file_path" \in fc.keys /\ fc.keys \subseteq {"file_path", "args"}

\* types.Content(role="tool", parts=[Part.from_function_response(name, response)])
ToolContent(name, key, value) ==
    [role |-> "tool", name |-> name, key |-> key, value |-> value]

\* the call_info dictionary: fields are its keys
CallInfo(fc, fields, error) ==
    [name |-> fc.name, fields |-> fields, keys |-> fc.keys,
     file_path |-> fc.file_path, content |-> fc.content, error |-> error]

Returned(content, info, fs, spawn) ==
    [raised |-> FALSE, content |-> content, info |-> info, fs |-> fs, spawn |-> spawn]

NoContent == ToolContent("", "", Msg("", <<>>, 0))
NoInfo == CallInfo(FunctionCall("", FALSE, {}, <<>>, <<>>), {}, "")

\* the exception leaves call_function: nothing is returned
Raised(fs, spawn) ==
    [raised |-> TRUE, content |-> NoContent, info |-> NoInfo, fs |-> fs, spawn |-> spawn]

\* the "except Exception as e" branch of call_function: building the
\* call_info evaluates dict(function_call_part.args), which raises when args
\* is None
CaughtInCallFunction(fc, fs, spawn) ==
    IF ~fc.hasArgs THEN Raised(fs, spawn)
    ELSE Returned(ToolContent(fc.name, "error", Msg("Exception", <<>>, 0)),
                  CallInfo(fc, {"name", "args", "error"}, "Exception"), fs, spawn)

ClearSandboxPy_Skip(fs) == [ok |-> TRUE, fs |-> fs]

\* "Clear sandbox.py after running it": lines 56-60
ClearSandboxPy(fs) ==
    LET sandbox_path == OsPathJoin(WorkingDir, SandboxPy)
    IN  IF Exists(sandbox_path, fs)
        THEN OpenWrite(sandbox_path, <<>>, fs)
        ELSE [ok |-> TRUE, fs |-> fs]

UnknownFunction_Raises(fc, fs) == Raised(fs, <<>>)

\* the else branch of call_function, lines 82-91: the name is not in
\* functions_map; the call_info has the keys "name" and "error" only
UnknownFunction(fc, fs) ==
    Returned(ToolContent(fc.name, "error", Msg("UnknownFunction", <<>>, 0)),
             CallInfo(FunctionCall(fc.name, FALSE, {}, <<>>, <<>>),
                      {"name", "error"}, "Unknown function"),
             fs, <<>>)

\* app.py call_function
call_function(fc, outcome, fs) ==
    IF fc.name \in functions_map
    THEN IF ~fc.hasArgs \/ ~KeywordsFit(fc)
         THEN CaughtInCallFunction(fc, fs, <<>>)
         ELSE IF fc.name = "write_files"
         THEN LET w == write_files(WorkingDir, fc.file_path, fc.content, fs)
              IN  Returned(ToolContent(fc.name, "result", w.result),
                           CallInfo(fc, {"name", "args", "success"}, ""), w.fs, <<>>)
         ELSE LET r == run_python_file(WorkingDir, fc.file_path, outcome, fs)
                  cleared == ClearSandboxPy(fs)
              IN  IF ~cleared.ok
                  THEN CaughtInCallFunction(fc, fs, r.spawn)
                  ELSE Returned(ToolContent(fc.name, "result", r.result),
                                CallInfo(fc, {"name", "args", "success"}, ""),
                                cleared.fs, r.spawn)
    ELSE UnknownFunction(fc, fs)

-----------------------------------------------------------------------------
(* The tools on their own: any sequence of tool calls against the sandbox. *)

\* file_path arguments: the canonical script, a script in a directory that
\* does not exist yet, a text file, the root itself, two ways out of the
\* sandbox, and a sibling directory whose name starts with "sandbox"
P_sandbox_py == SandboxPy
P_pkg_m_py == <<"p", "k", "g", "/", "m", ".", "p", "y">>
P_notes == <<"n", "o", "t", "e", "s">>
P_root == <<".">>
P_up_etc_passwd == <<".", ".", "/", ".", ".", "/", "e", "t", "c", "/", "p", "w">>
P_abs_etc_passwd == <<"/", "e", "t", "c", "/", "p", "w">>
P_sibling_x_py == <<".", ".", "/", "s", "a", "n", "d", "b", "o", "x", "2", "/",
                    "x", ".", "p", "y">>

FilePaths == {P_sandbox_py, P_pkg_m_py, P_notes, P_root, P_up_etc_passwd,
              P_abs_etc_passwd, P_sibling_x_py}

Contents == {<<"1">>, <<"2", "2">>}

WriteCall(p, c) == FunctionCall("write_files", TRUE, {"file_path", "content"}, p, c)
RunCall(p) == FunctionCall("run_python_file", TRUE, {"file_path"}, p, <<>>)

ToolCalls ==
    {WriteCall(p, c) : p \in FilePaths, c \in Contents}
    \cup {RunCall(p) : p \in FilePaths}
    \cup {FunctionCall("write_files", FALSE, {}, <<>>, <<>>),
          FunctionCall("run_python_file", TRUE, {}, <<>>, <<>>),
          FunctionCall("write_files", TRUE, {"file_path"}, P_sandbox_py, <<>>),
          FunctionCall("get_files_info", TRUE, {}, <<>>, <<>>)}

NoCall == FunctionCall("", FALSE, {}, <<>>, <<>>)

Outcome(r) == [raised |-> r.raised, content |-> r.content, info |-> r.info]

\* the machine before the first request: the sandbox directory exists and is
\* empty, and there is a file outside it
FsInit ==
    /\ dirs = {Slash, Cwd, WorkingDir, <<"/", "e", "t", "c">>}
    /\ files = (P_abs_etc_passwd :> <<"r">>)

ToolInit ==
    /\ FsInit
    /\ lastCall = NoCall
    /\ lastOutcome = Outcome(Raised([files |-> <<>>, dirs |-> {}], <<>>))
    /\ lastSpawn = <<>>

\* one call of call_function
CallFunctionStep ==
    \E fc \in ToolCalls, outcome \in RunOutcomes :
        \E r \in {call_function(fc, outcome, [files |-> files, dirs |-> dirs])} :
            /\ lastCall' = fc
            /\ lastOutcome' = Outcome(r)
            /\ lastSpawn' = r.spawn
            /\ files' = r.fs.files
            /\ dirs' = r.fs.dirs
            /\ UNCHANGED <<quotaVars, rateVars, chatVars>>

ToolNext == CallFunctionStep

-----------------------------------------------------------------------------
(* Containment, stated on path components and independently of the tools'  *)
(* own test: a path is inside when it is the sandbox root or below it.     *)

IsPrefixSeq(a, b) == Len(a) <= Len(b) /\ SubSeq(b, 1, Len(a)) = a

ResolvedComps(file_path) == NormComps(Split(OsPathJoin(WorkingDir, file_path)), <<>>)

InsideSandbox(file_path) ==
    IsPrefixSeq(NormComps(Split(WorkingDir), <<>>), ResolvedComps(file_path))

\* the part of the file system under the sandbox root
UnderRoot(p) == IsPrefixSeq(NormComps(Split(WorkingDir), <<>>), NormComps(Split(p), <<>>))
SandboxFiles(f) == [p \in {q \in DOMAIN f : UnderRoot(q)} |-> f[p]]
SandboxDirs(d) == {p \in d : UnderRoot(p)}

WellFormed(fc) == fc.hasArgs /\ KeywordsFit(fc)

\* C5: a write_files call whose path resolves outside the sandbox root returns
\* the containment-violation error and creates or modifies no file or directory.
C5_OutsideWriteRefused ==
    [][(/\ lastCall'.name = "write_files"
        /\ WellFormed(lastCall')
        /\ ~InsideSandbox(lastCall'.file_path))
       => (/\ ~lastOutcome'.raised
           /\ lastOutcome'.content.value.tag = "CannotWriteOutside"
           /\ files' = files
           /\ dirs' = dirs)]_vars

\* C6: a run_python_file call dispatched through call_function whose path
\* resolves outside the sandbox root yields the containment-violation error,
\* starts no subprocess, and creates, modifies or empties no file under the
\* sandbox root.
C6_OutsideRunNoEffect ==
    [][(/\ lastCall'.name = "run_python_file"
        /\ WellFormed(lastCall')
        /\ ~InsideSandbox(lastCall'.file_path))
       => (/\ ~lastOutcome'.raised
           /\ lastOutcome'.content.value.tag = "CannotExecuteOutside"
           /\ lastSpawn' = <<>>
           /\ SandboxFiles(files') = SandboxFiles(files)
           /\ SandboxDirs(dirs') = SandboxDirs(dirs))]_vars

\* the file a path inside the sandbox names
TargetOf(file_path) == PathOf(ResolvedComps(file_path))

SuccessfulWrite(fc, outcome) ==
    /\ fc.name = "write_files"
    /\ WellFormed(fc)
    /\ InsideSandbox(fc.file_path)
    /\ ~outcome.raised
    /\ outcome.content.value.tag = "SuccessfullyWrote"

\* C17: after a successful write_files(p, c) inside the sandbox the file at p
\* holds exactly c, whatever it held before, its parent directory exists, and
\* the reported count is the length of c.
C17_WriteReplacesContent ==
    SuccessfulWrite(lastCall, lastOutcome) =>
        LET target == TargetOf(lastCall.file_path) IN
        /\ target \in DOMAIN files
        /\ files[target] = lastCall.content
        /\ lastOutcome.content.value.n = Len(lastCall.content)
        /\ DirName(target) \in dirs

\* sandbox.py, written before with a content of another length, holds the
\* content of the latest write, and a file written into a directory that did
\* not exist is there as well
C17_Witness ==
    /\ SuccessfulWrite(lastCall, lastOutcome)
    /\ lastCall = WriteCall(P_sandbox_py, <<"2", "2">>)
    /\ files[TargetOf(P_sandbox_py)] = <<"2", "2">>
    /\ TargetOf(P_pkg_m_py) \in DOMAIN files
    /\ files[TargetOf(P_pkg_m_py)] = <<"1">>

SandboxPyIsEmpty ==
    TargetOf(SandboxPy) \in DOMAIN files => files[TargetOf(SandboxPy)] = <<>>

C20_ExitCodeIsAResult ==
    (lastCall.name = "run_python_file" /\ lastSpawn # <<>>
        /\ lastSpawn[1].ends # "timeout") =>
        /\ Len(lastSpawn) = 1
        /\ ~lastOutcome.raised
        /\ lastOutcome.content.key = "result"
        /\ lastOutcome.info.fields = {"name", "args", "success"}
        /\ lastSpawn[1].ends = "exit1" =>
              /\ lastOutcome.content.value.tag = "StdoutStderrExitCode"
              /\ lastOutcome.content.value.n # 0
        /\ lastSpawn[1].ends = "exit0" =>
              lastOutcome.content.value.tag = "StdoutStderr"

\* a script in the sandbox ended with a non-zero code
C20_Witness ==
    /\ lastCall = RunCall(P_pkg_m_py)
    /\ lastSpawn # <<>>
    /\ lastSpawn[1].ends = "exit1"
    /\ lastOutcome.content.value.tag = "StdoutStderrExitCode"

-----------------------------------------------------------------------------
(* Quota scheduler (database.py, "API Request Tracking")                   *)

DAILY_LIMIT == 20
MODEL_LITE == "gemini-2.5-flash-lite"
MODEL_MAIN == "gemini-2.5-flash"
Models == {MODEL_LITE, MODEL_MAIN}

\* get_request_count: the row's count, 0 when there is no row
get_request_count(model, utc_date, db) ==
    IF <<model, utc_date>> \in DOMAIN db THEN db[<<model, utc_date>>] ELSE 0

SelectModel_Inclusive(lite_count, main_count) ==
    IF lite_count <= DAILY_LIMIT THEN MODEL_LITE
    ELSE IF main_count <= DAILY_LIMIT THEN MODEL_MAIN
    ELSE MODEL_LITE

\* the if / elif / else of get_current_model, on the two counts it has read
SelectModel(lite_count, main_count) ==
    IF lite_count < DAILY_LIMIT THEN MODEL_LITE
    ELSE IF main_count < DAILY_LIMIT THEN MODEL_MAIN
    ELSE MODEL_LITE

get_current_model(utc_date, db) ==
    SelectModel(get_request_count(MODEL_LITE, utc_date, db),
                get_request_count(MODEL_MAIN, utc_date, db))

Upsert_PurgeOld(model, utc_date, db) ==
    [k \in {x \in DOMAIN db : x[2] = utc_date} \cup {<<model, utc_date>>} |->
        IF k = <<model, utc_date>>
        THEN (IF k \in DOMAIN db THEN db[k] + 1 ELSE 1)
        ELSE db[k]]

\* INSERT ... VALUES (?, ?, 1) ON CONFLICT(model, utc_date) DO UPDATE SET
\* request_count = request_count + 1
Upsert(model, utc_date, db) ==
    [k \in DOMAIN db \cup {<<model, utc_date>>} |->
        IF k = <<model, utc_date>>
        THEN (IF k \in DOMAIN db THEN db[k] + 1 ELSE 1)
        ELSE db[k]]

increment_request_count_Lite(model, utc_date, db) == Upsert(MODEL_LITE, utc_date, db)

\* increment_request_count as one transaction
increment_request_count(model, utc_date, db) == Upsert(model, utc_date, db)

NoProc == "none"
NoLocal == [lite_count |-> 0, model |-> "", utc_date |-> 0, count |-> 0]

\* the days the model runs through, and the cap on one counter
MaxDay == 2
MaxCount == 42
Days == 1..MaxDay

\* a counter table in which n requests were counted today, the way
\* get_current_model hands them out: lite up to the limit, then main
EmptyTable == [k \in {} |-> 0]
TableAfter(n, d) ==
    IF n = 0 THEN EmptyTable
    ELSE IF n <= DAILY_LIMIT THEN (<<MODEL_LITE, d>> :> n)
    ELSE (<<MODEL_LITE, d>> :> DAILY_LIMIT) @@ (<<MODEL_MAIN, d>> :> (n - DAILY_LIMIT))

CountsOf(db) == [k \in Models \X Days |-> get_request_count(k[1], k[2], db)]

(* One caller at a time: each call is one step. *)
SeqCaller == "w1"

\* day 1, nobody in a call, and one of the given counter tables
QuotaStart(tables, callers) ==
    /\ api_requests \in tables
    /\ today = 1
    /\ wpc = [p \in callers |-> "idle"]
    /\ wlocal = [p \in callers |-> NoLocal]
    /\ writeLock = NoProc
    /\ incDone = CountsOf(api_requests)
    /\ wrounds = 0

QuotaInit == QuotaStart({EmptyTable}, {SeqCaller})

\* current_model, model_display = database.get_current_model()
QGetCurrentModel ==
    /\ wpc[SeqCaller] = "idle"
    /\ wpc' = [wpc EXCEPT ![SeqCaller] = "selected"]
    /\ wlocal' = [wlocal EXCEPT ![SeqCaller] =
           [lite_count |-> get_request_count(MODEL_LITE, today, api_requests),
            model |-> get_current_model(today, api_requests),
            utc_date |-> today, count |-> 0]]
    /\ UNCHANGED <<api_requests, today, writeLock, incDone, wrounds, toolVars, rateVars, chatVars>>

\* database.increment_request_count(current_model)
QIncrement ==
    /\ wpc[SeqCaller] = "selected"
    /\ get_request_count(wlocal[SeqCaller].model, today, api_requests) < MaxCount
    /\ api_requests' = increment_request_count(wlocal[SeqCaller].model, today, api_requests)
    /\ incDone' = [incDone EXCEPT ![<<wlocal[SeqCaller].model, today>>] = @ + 1]
    /\ wpc' = [wpc EXCEPT ![SeqCaller] = "idle"]
    /\ wlocal' = [wlocal EXCEPT ![SeqCaller].utc_date = today,
                                ![SeqCaller].count =
                                    get_request_count(wlocal[SeqCaller].model, today,
                                                      api_requests')]
    /\ UNCHANGED <<today, writeLock, wrounds, toolVars, rateVars, chatVars>>

\* midnight UTC
DayRollover ==
    /\ today < MaxDay
    /\ today' = today + 1
    /\ UNCHANGED <<api_requests, wpc, wlocal, writeLock, incDone, wrounds, toolVars, rateVars, chatVars>>

QuotaNext == QGetCurrentModel \/ QIncrement \/ DayRollover

\* C2: with p and s the numbers of increments recorded today for lite and
\* main, get_current_model returns lite while p < 20, main once p has reached
\* 20 and while s < 20, and lite again once s has reached 20 too.
C2_SelectByCounters ==
    (wpc[SeqCaller] = "selected" /\ wlocal[SeqCaller].utc_date = today) =>
        LET p == incDone[<<MODEL_LITE, today>>]
            s == incDone[<<MODEL_MAIN, today>>]
            m == wlocal[SeqCaller].model
        IN  /\ p < 20 => m = MODEL_LITE
            /\ (p >= 20 /\ s < 20) => m = MODEL_MAIN
            /\ (p >= 20 /\ s >= 20) => m = MODEL_LITE

\* both tiers used up today, and lite is handed out again
C2_Witness ==
    /\ wpc[SeqCaller] = "selected"
    /\ wlocal[SeqCaller].utc_date = today
    /\ incDone[<<MODEL_LITE, today>>] = 20
    /\ incDone[<<MODEL_MAIN, today>>] = 20
    /\ wlocal[SeqCaller].model = MODEL_LITE

\* C23: for each (tier, UTC date) the stored counter never decreases; a date
\* with no increment reads as zero, so the first selection on a new UTC date
\* returns the primary tier whatever the previous date's counts were; and an
\* increment leaves the counters of every date but the current one unchanged.
C23_CountersOnlyGrow ==
    [][LET before(k) == get_request_count(k[1], k[2], api_requests)
           after(k) == get_request_count(k[1], k[2], api_requests')
       IN  /\ \A k \in Models \X Days :
                /\ after(k) >= before(k)
                /\ k[2] # today => after(k) = before(k)
                /\ incDone[k] = 0 => before(k) = 0
           /\ (/\ wpc[SeqCaller] = "idle"
               /\ wpc'[SeqCaller] = "selected"
               /\ \A m \in Models : incDone[<<m, today>>] = 0)
              => wlocal'[SeqCaller].model = MODEL_LITE]_vars

\* on day 1 lite was used up and main was in use; the first request of day 2
\* got lite and was counted under day 2, day 1 keeping its counts
C23_Witness ==
    /\ today = 2
    /\ get_request_count(MODEL_LITE, 1, api_requests) = DAILY_LIMIT
    /\ get_request_count(MODEL_MAIN, 1, api_requests) >= 1
    /\ wpc[SeqCaller] = "idle"
    /\ wlocal[SeqCaller].model = MODEL_LITE
    /\ wlocal[SeqCaller].utc_date = 2
    /\ get_request_count(MODEL_LITE, 2, api_requests) = 1
    /\ get_request_count(MODEL_MAIN, 2, api_requests) = 0

-----------------------------------------------------------------------------
(* Concurrent callers (several server processes on one database file).     *)
(* Each runs the head of a process_chat iteration: get_current_model (two  *)
(* read transactions), then increment_request_count (one write             *)
(* transaction), then the model call.  SQLite admits one writer: the       *)
(* upsert takes the write lock, the commit at the end of get_db releases   *)
(* it, and a connection that cannot get the lock within the busy timeout   *)
(* raises OperationalError.                                                *)

Procs == {"w1", "w2"}
MaxRounds == 3

CanWrite_Unlocked(p, lock) == TRUE

\* the write lock is free (or already ours)
CanWrite(p, lock) == lock \in {NoProc, p}

\* the day's count is far from, or one short of, a switch of tier
ConcInit == QuotaStart({TableAfter(n, 1) : n \in {0, 19, 39}}, Procs)

\* get_current_model: utc_date = get_utc_date(); lite_count = get_request_count(...)
CReadLite(p) ==
    /\ wpc[p] = "idle"
    /\ wrounds < MaxRounds
    /\ wrounds' = wrounds + 1
    /\ wpc' = [wpc EXCEPT ![p] = "readLite"]
    /\ wlocal' = [wlocal EXCEPT ![p] =
           [lite_count |-> get_request_count(MODEL_LITE, today, api_requests),
            model |-> "", utc_date |-> today, count |-> 0]]
    /\ UNCHANGED <<api_requests, today, writeLock, incDone, toolVars, rateVars, chatVars>>

\* get_current_model: main_count = get_request_count(...); the choice
CReadMain(p) ==
    /\ wpc[p] = "readLite"
    /\ wpc' = [wpc EXCEPT ![p] = "selected"]
    /\ wlocal' = [wlocal EXCEPT ![p].model =
           SelectModel(wlocal[p].lite_count,
                       get_request_count(MODEL_MAIN, wlocal[p].utc_date, api_requests))]
    /\ UNCHANGED <<api_requests, today, writeLock, incDone, wrounds, toolVars, rateVars, chatVars>>

\* increment_request_count: utc_date = get_utc_date(); the upsert statement
CUpsert(p) ==
    /\ wpc[p] = "selected"
    /\ CanWrite(p, writeLock)
    /\ writeLock' = p
    /\ wpc' = [wpc EXCEPT ![p] = "upserted"]
    /\ wlocal' = [wlocal EXCEPT
           ![p].utc_date = today,
           ![p].count = Upsert(wlocal[p].model, today, api_requests)[<<wlocal[p].model, today>>]]
    /\ UNCHANGED <<api_requests, today, incDone, wrounds, toolVars, rateVars, chatVars>>

\* increment_request_count: "database is locked": rollback and raise; the
\* exception leaves process_chat
CBusy(p) ==
    /\ wpc[p] = "selected"
    /\ ~CanWrite(p, writeLock)
    /\ wpc' = [wpc EXCEPT ![p] = "idle"]
    /\ wlocal' = [wlocal EXCEPT ![p] = NoLocal]
    /\ UNCHANGED <<api_requests, today, writeLock, incDone, wrounds, toolVars, rateVars, chatVars>>

\* increment_request_count: the SELECT of the new count, conn.commit(), return
CCommit(p) ==
    /\ wpc[p] = "upserted"
    /\ LET k == <<wlocal[p].model, wlocal[p].utc_date>> IN
        /\ api_requests' = [x \in DOMAIN api_requests \cup {k} |->
                               IF x = k THEN wlocal[p].count ELSE api_requests[x]]
        /\ incDone' = [incDone EXCEPT ![k] = @ + 1]
    /\ writeLock' = IF writeLock = p THEN NoProc ELSE writeLock
    /\ wpc' = [wpc EXCEPT ![p] = "invoke"]
    /\ UNCHANGED <<today, wlocal, wrounds, toolVars, rateVars, chatVars>>

\* client.models.generate_content(model=current_model, ...) and the rest of
\* the iteration
CInvoke(p) ==
    /\ wpc[p] = "invoke"
    /\ wpc' = [wpc EXCEPT ![p] = "idle"]
    /\ wlocal' = [wlocal EXCEPT ![p] = NoLocal]
    /\ UNCHANGED <<api_requests, today, writeLock, incDone, wrounds, toolVars, rateVars, chatVars>>

ConcNext ==
    \/ \E p \in Procs : CReadLite(p)
    \/ \E p \in Procs : CReadMain(p)
    \/ \E p \in Procs : CUpsert(p)
    \/ \E p \in Procs : CBusy(p)
    \/ \E p \in Procs : CCommit(p)
    \/ \E p \in Procs : CInvoke(p)
    \/ DayRollover

\* C3: concurrent increment_request_count calls lose no update: every counter
\* equals the number of increment calls completed for its tier and date.
C3_NoLostUpdate ==
    \A k \in Models \X Days :
        get_request_count(k[1], k[2], api_requests) = incDone[k]

\* two callers incremented the same counter while the other was in its own
\* iteration, one of them having had to wait for the lock
C3_Witness ==
    \E p \in Procs : \E q \in Procs \ {p} :
        /\ wpc[p] = "invoke" /\ wpc[q] = "invoke"
        /\ wlocal[p].model = wlocal[q].model
        /\ wlocal[p].utc_date = wlocal[q].utc_date
        /\ wlocal[p].count = wlocal[q].count + 1

\* C27: under any interleaving of concurrent loops the lite (primary) tier's
\* counter for a UTC date never exceeds the daily limit while the main
\* (secondary) tier's counter for that date is below the limit.
C27_LiteStopsAtLimit ==
    \A d \in Days :
        get_request_count(MODEL_MAIN, d, api_requests) < DAILY_LIMIT
            => get_request_count(MODEL_LITE, d, api_requests) <= DAILY_LIMIT

-----------------------------------------------------------------------------
(* Rate limiter (database.py, "User Rate Limiting").  Time is counted in   *)
(* ticks, TicksPerSecond to the second, so that datetime's sub-second      *)
(* resolution and the int() of the reported wait are both there.           *)
(* request_time is stored as datetime.isoformat() text in UTC and compared *)
(* as text; fixed-width fields make that the order of the instants, and    *)
(* fromisoformat gives the instant back, so a row holds the tick itself.   *)

RATE_LIMIT_REQUESTS == 4
RATE_LIMIT_WINDOW_SECONDS == 60
RATE_LIMIT_COOLDOWN_SECONDS == 60
CleanupSeconds == 120

TicksPerSecond == 2
Seconds(n) == n * TicksPerSecond

\* int(x) of Python for the quotient a / b, b > 0: towards zero
IntDiv(a, b) == IF a >= 0 THEN a \div b ELSE -((-a) \div b)

Max(a, b) == IF a >= b THEN a ELSE b

DeleteOlderThan_Inclusive(table, cleanup_time) ==
    LET Keep(row) == ~(row.request_time <= cleanup_time) IN SelectSeq(table, Keep)

\* DELETE FROM user_rate_limits WHERE request_time < ?
DeleteOlderThan(table, cleanup_time) ==
    LET Keep(row) == ~(row.request_time < cleanup_time) IN SelectSeq(table, Keep)

RequestsSince_NoWindow(table, user_id, window_start) ==
    LET Hit(row) == row.user_id = user_id IN SelectSeq(table, Hit)

\* SELECT request_time ... WHERE user_id = ? AND request_time >= ?
\* ORDER BY request_time ASC: only the first row and the number of rows are used
RequestsSince(table, user_id, window_start) ==
    LET Hit(row) == row.user_id = user_id /\ row.request_time >= window_start
    IN  SelectSeq(table, Hit)

Oldest(rows) ==
    CHOOSE t \in {rows[i].request_time : i \in DOMAIN rows} :
        \A i \in DOMAIN rows : t <= rows[i].request_time

NoUser == ""

IsAnonymous_Never(user_id) == FALSE

\* "if not user_id": no resolved user identity
IsAnonymous(user_id) == user_id = NoUser

record_user_request_Twice(user_id, t, table) ==
    IF IsAnonymous(user_id) THEN table
    ELSE table \o <<[user_id |-> user_id, request_time |-> t],
                    [user_id |-> user_id, request_time |-> t]>>

IsRateLimited_Above(requests) == Len(requests) > RATE_LIMIT_REQUESTS

\* if len(requests) >= RATE_LIMIT_REQUESTS
IsRateLimited(requests) == Len(requests) >= RATE_LIMIT_REQUESTS

\* check_user_rate_limit(user_id) at clock t: the new table and the result
check_user_rate_limit(user_id, t, table) ==
    IF IsAnonymous(user_id)
    THEN [table |-> table, is_allowed |-> TRUE, seconds |-> 0]
    ELSE LET window_start == t - Seconds(RATE_LIMIT_WINDOW_SECONDS)
             cleaned == DeleteOlderThan(table, t - Seconds(CleanupSeconds))
             requests == RequestsSince(cleaned, user_id, window_start)
         IN  IF IsRateLimited(requests)
             THEN LET unlock_time == Oldest(requests)
                          + Seconds(RATE_LIMIT_WINDOW_SECONDS + RATE_LIMIT_COOLDOWN_SECONDS)
                  IN  [table |-> cleaned, is_allowed |-> FALSE,
                       seconds |-> Max(0, IntDiv(unlock_time - t, TicksPerSecond))]
             ELSE [table |-> cleaned, is_allowed |-> TRUE, seconds |-> 0]

\* record_user_request(user_id) at clock t
record_user_request(user_id, t, table) ==
    IF IsAnonymous(user_id) THEN table
    ELSE Append(table, [user_id |-> user_id, request_time |-> t])

Users == {"u1", "u2"}
MaxRows == 5

\* the instants at which something happens: a burst at the start, the edges
\* of the 60 s window and of the 120 s horizon of the first requests, each
\* also a tick off the whole second
Instants ==
    {0, 1, Seconds(1), Seconds(59) + 1, Seconds(60), Seconds(60) + 1,
     Seconds(120), Seconds(120) + 1, Seconds(121)}

NoCheck == [at |-> 0, is_allowed |-> TRUE, seconds |-> 0]
IdleHandler == [pc |-> "idle", user_id |-> NoUser]

RateInit ==
    /\ user_rate_limits = <<>>
    /\ now = 0
    /\ rpc = "idle"
    /\ ruser = NoUser
    /\ lastCheck = NoCheck
    /\ denials = [u \in Users |-> 0]
    /\ hpc = [p \in Procs |-> IdleHandler]

\* the clock moves on
Tick ==
    /\ \E t \in Instants : t > now /\ now' = t
    /\ denials' = [u \in Users |-> IF denials[u] > now' THEN denials[u] ELSE 0]
    /\ UNCHANGED <<user_rate_limits, rpc, ruser, lastCheck, hpc, toolVars, quotaVars, chatVars>>

\* chat: is_allowed, wait_seconds = database.check_user_rate_limit(user_id)
ChatCheck(u) ==
    /\ rpc = "idle"
    /\ Len(user_rate_limits) < MaxRows
    /\ \E r \in {check_user_rate_limit(u, now, user_rate_limits)} :
        /\ user_rate_limits' = r.table
        /\ lastCheck' = [at |-> now, is_allowed |-> r.is_allowed, seconds |-> r.seconds]
        /\ rpc' = IF r.is_allowed THEN "allowed" ELSE "denied"
        /\ denials' = IF r.is_allowed THEN denials
                       ELSE [denials EXCEPT ![u] = Max(@, now + Seconds(r.seconds))]
    /\ ruser' = u
    /\ UNCHANGED <<now, hpc, toolVars, quotaVars, chatVars>>

ChatReject_Records ==
    /\ rpc = "denied"
    /\ user_rate_limits' = record_user_request(ruser, now, user_rate_limits)
    /\ rpc' = "idle"
    /\ ruser' = NoUser
    /\ lastCheck' = NoCheck
    /\ UNCHANGED <<now, denials, hpc, toolVars, quotaVars, chatVars>>

\* chat: raise HTTPException(429, "Rate limited. Please wait ... seconds.")
ChatReject ==
    /\ rpc = "denied"
    /\ rpc' = "idle"
    /\ ruser' = NoUser
    /\ lastCheck' = NoCheck
    /\ UNCHANGED <<user_rate_limits, now, denials, hpc, toolVars, quotaVars, chatVars>>

\* chat: database.record_user_request(user_id); the request goes on to
\* process_chat and the handler returns
ChatRecord ==
    /\ rpc = "allowed"
    /\ user_rate_limits' = record_user_request(ruser, now, user_rate_limits)
    /\ rpc' = "idle"
    /\ ruser' = NoUser
    /\ lastCheck' = NoCheck
    /\ UNCHANGED <<now, denials, hpc, toolVars, quotaVars, chatVars>>

RateNext ==
    \/ Tick
    \/ \E u \in Users \cup {NoUser} : ChatCheck(u)
    \/ ChatReject
    \/ ChatRecord

(* Chat requests handled at the same time (several server processes on    *)
(* one database file).  check_user_rate_limit and record_user_request each *)
(* open their own connection and commit: each is one transaction, and      *)
(* SQLite runs the transactions one after another in some order.           *)

\* the user whose requests arrive together
SameUser == "u1"

\* is_allowed, wait_seconds = database.check_user_rate_limit(user_id)
HCheck(p, u) ==
    /\ hpc[p].pc = "idle"
    /\ Len(user_rate_limits) < MaxRows
    /\ \E r \in {check_user_rate_limit(u, now, user_rate_limits)} :
        /\ user_rate_limits' = r.table
        /\ hpc' = [hpc EXCEPT ![p] =
               [pc |-> IF r.is_allowed THEN "allowed" ELSE "denied", user_id |-> u]]
    /\ UNCHANGED <<now, rpc, ruser, lastCheck, denials, toolVars, quotaVars, chatVars>>

\* raise HTTPException(429, ...)
HReject(p) ==
    /\ hpc[p].pc = "denied"
    /\ hpc' = [hpc EXCEPT ![p] = IdleHandler]
    /\ UNCHANGED <<user_rate_limits, now, rpc, ruser, lastCheck, denials,
                   toolVars, quotaVars, chatVars>>

\* database.record_user_request(user_id); the request goes on
HRecord(p) ==
    /\ hpc[p].pc = "allowed"
    /\ user_rate_limits' = record_user_request(hpc[p].user_id, now, user_rate_limits)
    /\ hpc' = [hpc EXCEPT ![p] = IdleHandler]
    /\ UNCHANGED <<now, rpc, ruser, lastCheck, denials, toolVars, quotaVars, chatVars>>

RateConcNext ==
    \/ Tick
    \/ \E p \in Procs : HCheck(p, SameUser)
    \/ \E p \in Procs : HReject(p)
    \/ \E p \in Procs : HRecord(p)

-----------------------------------------------------------------------------
(* The agent loop (app.py process_chat).  One step is one pass of the      *)
(* while loop: model selection, quota increment, model invocation and      *)
(* whatever the response leads to.  The remote model is the environment:   *)
(* each invocation raises or returns any of Responses.  The counter        *)
(* api_request_counter is only printed and is left out.                    *)

Turn(role, text, calls, parts) ==
    [role |-> role, text |-> text, calls |-> calls, parts |-> parts]

\* types.Content(role="user", parts=[types.Part(text=message)])
UserTurn(message) == Turn("user", message, <<>>, <<>>)
\* types.Content(role="model", parts=[types.Part(text=response.text)])
ModelTextTurn(text) == Turn("model", text, <<>>, <<>>)
\* response.candidates[0].content of a response with function calls
ModelCallTurn(response) == Turn("model", response.text, response.function_calls, <<>>)
\* types.Content(role="user", parts=function_responses)
ToolResponseTurn(parts) == Turn("user", <<>>, <<>>, parts)

\* str.strip(): leading and trailing blanks removed
RECURSIVE LStrip(_)
LStrip(s) == IF s # <<>> /\ Head(s) = " " THEN LStrip(Tail(s)) ELSE s
RECURSIVE RStrip(_)
RStrip(s) == IF s # <<>> /\ s[Len(s)] = " " THEN RStrip(ButLast(s)) ELSE s
Strip(s) == RStrip(LStrip(s))

\* a response: text_none is "response.text is None"
Response(text_none, text, function_calls) ==
    [text_none |-> text_none, text |-> text, function_calls |-> function_calls]

has_function_calls(response) == Len(response.function_calls) > 0
has_text_response(response) == ~response.text_none /\ Strip(response.text) # <<>>

LoopContinues_OneMore(c) == c <= 16

\* the while condition
LoopContinues(c) == c <= 15

\* the for loop over response.function_calls: call_function on each in turn;
\* one that raises is skipped by "continue", the others add their call_info
\* to function_calls_made and their part to function_responses
RECURSIVE DispatchAll(_, _, _, _)
DispatchAll(calls, outcomes, i, acc) ==
    IF i > Len(calls) THEN acc
    ELSE LET r == call_function(calls[i], outcomes[i], acc.fs) IN
         DispatchAll(calls, outcomes, i + 1,
            IF r.raised
            THEN [acc EXCEPT !.fs = r.fs, !.spawn = @ \o r.spawn]
            ELSE [fs |-> r.fs,
                  made |-> Append(acc.made, r.info),
                  function_responses |-> Append(acc.function_responses, r.content),
                  spawn |-> acc.spawn \o r.spawn])

CommitTurns_AnswerOnly(history, message, text) ==
    Append(history, ModelTextTurn(text))

CommitTurns_Overwrite(history, message, text) ==
    <<UserTurn(message), ModelTextTurn(text)>>

\* sessions[session_id].append(user turn); sessions[session_id].append(model turn)
CommitTurns(history, message, text) ==
    history \o <<UserTurn(message), ModelTextTurn(text)>>

\* the three return statements
ReturnText(text, made) == [kind |-> "text", text |-> text, function_calls |-> made]
ReturnError(made) == [kind |-> "error", text |-> <<>>, function_calls |-> made]
ReturnApology_NoRecords(made) ==
    [kind |-> "apology", text |-> <<>>, function_calls |-> <<>>]
ReturnApology_FallsOff(made) == [kind |-> "none", text |-> <<>>, function_calls |-> <<>>]
ReturnApology(made) == [kind |-> "apology", text |-> <<>>, function_calls |-> made]
NoResult == [kind |-> "none", text |-> <<>>, function_calls |-> <<>>]

StoredHistory(sid) == IF sid \in DOMAIN sessions THEN sessions[sid] ELSE <<>>

\* what the model may ask for in one response
Unfit == FunctionCall("run_python_file", TRUE, {}, <<>>, <<>>)
ArgsNone == FunctionCall("write_files", FALSE, {}, <<>>, <<>>)
Undeclared == FunctionCall("get_files_info", TRUE, {}, <<>>, <<>>)

CallLists ==
    {<<WriteCall(P_sandbox_py, <<"1">>), RunCall(P_sandbox_py)>>,
     <<WriteCall(P_sandbox_py, <<"2", "2">>)>>,
     <<RunCall(P_up_etc_passwd)>>,
     <<ArgsNone, Undeclared, WriteCall(P_pkg_m_py, <<"1">>)>>,
     <<Unfit, RunCall(P_pkg_m_py)>>}

Answer == <<"4">>
Blank == <<" ">>
Question == <<"2", "+", "2">>

Responses ==
    {Response(FALSE, Answer, <<>>), Response(TRUE, <<>>, <<>>), Response(FALSE, Blank, <<>>)}
    \cup {Response(TRUE, <<>>, calls) : calls \in CallLists}
    \cup {Response(FALSE, Answer, <<WriteCall(P_sandbox_py, <<"1">>)>>)}

SessionIds == {"s1", "s2"}

\* the responses with function calls that one request may receive
MaxToolRounds == 2

ToolRounds(history) ==
    Cardinality({i \in DOMAIN history : history[i].calls # <<>>})

OutcomeChoices(calls) ==
    {o \in [1..Len(calls) -> RunOutcomes] :
        \A i \in 1..Len(calls) : calls[i].name # "run_python_file" => o[i] = "exit0"}

NoTrace ==
    [before |-> <<>>, invocations |-> 0, model |-> "", failed |-> FALSE, spawned |-> <<>>,
     empty |-> 0]

ChatInit ==
    /\ sessions \in {[x \in {} |-> <<>>],
                     [x \in {"s1"} |-> CommitTurns(<<>>, Question, Answer)]}
    /\ cpc = "idle"
    /\ request = [session_id |-> "", message |-> <<>>]
    /\ messages = <<>>
    /\ function_calls_made = <<>>
    /\ count = 0
    /\ result = NoResult
    /\ trace = NoTrace

\* process_chat, up to the loop: the session is created when new, the working
\* history is a copy of the stored one plus the user message
ProcessChatBegin(sid, message) ==
    /\ cpc = "idle"
    /\ sessions' = IF sid \in DOMAIN sessions THEN sessions
                   ELSE [x \in DOMAIN sessions \cup {sid} |->
                            IF x = sid THEN <<>> ELSE sessions[x]]
    /\ request' = [session_id |-> sid, message |-> message]
    /\ messages' = Append(StoredHistory(sid), UserTurn(message))
    /\ function_calls_made' = <<>>
    /\ count' = 1
    /\ result' = NoResult
    /\ cpc' = "loop"
    /\ trace' = [NoTrace EXCEPT !.before = StoredHistory(sid)]

\* process_chat called on its own
ProcessChatStart(sid, message) ==
    /\ ProcessChatBegin(sid, message)
    /\ UNCHANGED <<toolVars, quotaVars, rateVars>>

\* current_model, model_display = database.get_current_model(): the tier that
\* is then counted and passed to generate_content(model=current_model, ...)
CurrentModel == get_current_model(today, api_requests)

\* the head of every iteration: get_current_model, increment_request_count
IterationHead ==
    /\ cpc = "loop"
    /\ LoopContinues(count)
    /\ \E m \in {CurrentModel} :
        /\ api_requests' = increment_request_count(m, today, api_requests)
        /\ incDone' = [incDone EXCEPT ![<<m, today>>] = @ + 1]
    /\ UNCHANGED <<today, wpc, wlocal, writeLock, wrounds, rateVars,
                   lastCall, lastOutcome, lastSpawn>>

\* what main.py does instead: "count += 1; continue"
IterationRaises_Retry ==
    /\ IterationHead
    /\ count' = count + 1
    /\ trace' = [trace EXCEPT !.invocations = @ + 1, !.model = CurrentModel, !.failed = TRUE]
    /\ UNCHANGED <<sessions, cpc, request, messages, function_calls_made, result,
                   files, dirs>>

\* generate_content raises: "return f'Error: ...', function_calls_made"
IterationRaises ==
    /\ IterationHead
    /\ result' = ReturnError(function_calls_made)
    /\ cpc' = "returned"
    /\ trace' = [trace EXCEPT !.invocations = @ + 1, !.model = CurrentModel, !.failed = TRUE]
    /\ UNCHANGED <<sessions, request, messages, function_calls_made, count, files, dirs>>

\* a response without function calls and with text: the success exit
IterationText ==
    /\ IterationHead
    /\ \E response \in Responses :
        /\ ~has_function_calls(response) /\ has_text_response(response)
        /\ sessions' = [sessions EXCEPT ![request.session_id] =
                           CommitTurns(@, request.message, response.text)]
        /\ result' = ReturnText(response.text, function_calls_made)
    /\ trace' = [trace EXCEPT !.invocations = @ + 1, !.model = CurrentModel]
    /\ cpc' = "returned"
    /\ UNCHANGED <<request, messages, function_calls_made, count, files, dirs>>

\* a response with function calls: they are dispatched in order
IterationTools ==
    /\ IterationHead
    /\ ToolRounds(messages) < MaxToolRounds
    /\ \E response \in Responses :
        /\ has_function_calls(response)
        /\ \E outcomes \in OutcomeChoices(response.function_calls) :
           \E d \in {DispatchAll(response.function_calls, outcomes, 1,
                                 [fs |-> [files |-> files, dirs |-> dirs],
                                  made |-> function_calls_made,
                                  function_responses |-> <<>>,
                                  spawn |-> <<>>])} :
            /\ messages' =
                  IF d.function_responses # <<>>
                  THEN messages \o <<ModelCallTurn(response),
                                     ToolResponseTurn(d.function_responses)>>
                  ELSE Append(messages, ModelCallTurn(response))
            /\ function_calls_made' = d.made
            /\ files' = d.fs.files
            /\ dirs' = d.fs.dirs
            /\ trace' = [trace EXCEPT !.invocations = @ + 1, !.model = CurrentModel,
                                      !.spawned = @ \o d.spawn]
    /\ count' = count + 1
    /\ UNCHANGED <<sessions, cpc, request, result>>

IterationEmpty_Stays ==
    /\ IterationHead
    /\ \E response \in Responses :
        ~has_function_calls(response) /\ ~has_text_response(response)
    /\ trace' = [trace EXCEPT !.invocations = @ + 1, !.model = CurrentModel,
                              !.empty = @ + 1]
    /\ UNCHANGED <<sessions, cpc, request, messages, function_calls_made, result,
                   count, files, dirs>>

\* a response with neither function calls nor text: only count += 1
IterationEmpty ==
    /\ IterationHead
    /\ \E response \in Responses :
        ~has_function_calls(response) /\ ~has_text_response(response)
    /\ count' = count + 1
    /\ trace' = [trace EXCEPT !.invocations = @ + 1, !.model = CurrentModel,
                              !.empty = @ + 1]
    /\ UNCHANGED <<sessions, cpc, request, messages, function_calls_made, result,
                   files, dirs>>

\* the loop ends: "return 'I apologize, ...', function_calls_made"
LoopExhausted ==
    /\ cpc = "loop"
    /\ ~LoopContinues(count)
    /\ result' = ReturnApology(function_calls_made)
    /\ cpc' = "returned"
    /\ UNCHANGED <<sessions, request, messages, function_calls_made, count, trace,
                   toolVars, quotaVars, rateVars>>

\* one pass through "while count <= 15", or the fall through to the apology
LoopStep ==
    IterationRaises \/ IterationText \/ IterationTools \/ IterationEmpty \/ LoopExhausted

ChatNext ==
    \/ \E sid \in SessionIds : ProcessChatStart(sid, Question)
    \/ IterationRaises
    \/ IterationText
    \/ IterationTools
    \/ IterationEmpty
    \/ LoopExhausted

-----------------------------------------------------------------------------
(* The chat handler from end to end (app.py chat): the rate-limit check,   *)
(* then either the 429 response or the recording of the request and        *)
(* process_chat.  The handler is an "async def" that calls the blocking    *)
(* process_chat directly, so a server process handles one request at a     *)
(* time.  One admitted request is followed to its end; the conversation    *)
(* file written afterwards is left out.                                    *)

\* lines 240-252: record_user_request, then process_chat is entered
ChatAccept(sid) ==
    /\ rpc = "allowed"
    /\ user_rate_limits' = record_user_request(ruser, now, user_rate_limits)
    /\ rpc' = "processing"
    /\ ProcessChatBegin(sid, Question)
    /\ UNCHANGED <<now, ruser, lastCheck, denials, hpc, toolVars, quotaVars>>

\* lines 273-278: process_chat has returned and the response is sent
ChatReturn ==
    /\ rpc = "processing"
    /\ cpc = "returned"
    /\ rpc' = "idle"
    /\ ruser' = NoUser
    /\ lastCheck' = NoCheck
    /\ UNCHANGED <<user_rate_limits, now, denials, hpc, toolVars, quotaVars, chatVars>>

\* n requests of user u at the start of the current window
RowsOf(u, n) == [i \in 1..n |-> [user_id |-> u, request_time |-> 0]]

HandlerNext ==
    \/ \E u \in Users \cup {NoUser} : ChatCheck(u)
    \/ ChatReject
    \/ \E sid \in SessionIds : ChatAccept(sid)
    \/ IterationRaises
    \/ IterationText
    \/ IterationTools
    \/ IterationEmpty
    \/ LoopExhausted
    \/ ChatReturn

-----------------------------------------------------------------------------
(* Properties of the agent loop                                            *)

\* the turns the current request has added to the working history after the
\* user message
NewTurns == SubSeq(messages, Len(trace.before) + 2, Len(messages))

RECURSIVE RequestedCalls(_)
RequestedCalls(turns) ==
    IF turns = <<>> THEN <<>> ELSE Head(turns).calls \o RequestedCalls(Tail(turns))

RECURSIVE AnsweredParts(_)
AnsweredParts(turns) ==
    IF turns = <<>> THEN <<>> ELSE Head(turns).parts \o AnsweredParts(Tail(turns))

NamesOf(seq) == [i \in DOMAIN seq |-> seq[i].name]

InRequest == cpc \in {"loop", "returned"}

\* the records are those of the calls answered in the working history
RecordsAreTheAnswered(records) ==
    NamesOf(records) = NamesOf(AnsweredParts(NewTurns))

\* C1: one process_chat call makes at most 15 remote model invocations.
C1_AtMost15Invocations == trace.invocations <= 15

\* all 15 iterations were used, with tool calls on the way
C1_Witness ==
    /\ cpc = "returned"
    /\ trace.invocations = 15
    /\ Len(function_calls_made) >= 3

\* C7: a model invocation that raises ends the call at once: an error text and
\* the tool-call records of the earlier iterations are returned, the failed
\* invocation is the last one, and the stored history of the session is as it
\* was before the request.
C7_AbortOnModelError ==
    /\ trace.failed =>
        /\ cpc = "returned"
        /\ result.kind = "error"
        /\ result.function_calls = function_calls_made
        /\ RecordsAreTheAnswered(result.function_calls)
        /\ trace.invocations = count
        /\ StoredHistory(request.session_id) = trace.before
    /\ result.kind = "error" => trace.failed

\* the third invocation raised, after two rounds of tool calls, in a session
\* that had a stored history
C7_Witness ==
    /\ trace.failed
    /\ trace.invocations = 3
    /\ Len(result.function_calls) >= 3
    /\ trace.before # <<>>

\* C8, as claimed: on the success exit the stored history is the working
\* history (tool-call and tool-response turns included) plus the final turn.
C8_StoredIsWorkingHistory ==
    result.kind = "text" =>
        StoredHistory(request.session_id) = Append(messages, ModelTextTurn(result.text))

\* C8, amended: on the success exit the stored history is the previously stored
\* turns, then the new user message, then the final assistant text turn.
C8_StoredIsUserAndAnswer ==
    result.kind = "text" =>
        /\ Strip(result.text) # <<>>
        /\ StoredHistory(request.session_id) =
              trace.before \o <<UserTurn(request.message), ModelTextTurn(result.text)>>

\* success after tool calls, in a session that had a stored history
C8_Witness ==
    /\ result.kind = "text"
    /\ trace.before # <<>>
    /\ RequestedCalls(NewTurns) # <<>>

\* C9: when 15 iterations pass without a text-only response, the apology is
\* returned with all tool-call records of the request, and the stored history
\* of the session is as it was before the request.
C9_ExhaustedReturnsApology ==
    /\ (cpc = "returned" /\ result.kind \notin {"text", "error"}) =>
        /\ result.kind = "apology"
        /\ trace.invocations = 15
        /\ result.function_calls = function_calls_made
        /\ RecordsAreTheAnswered(result.function_calls)
        /\ StoredHistory(request.session_id) = trace.before
    /\ (cpc = "loop" /\ trace.invocations = 15) => ENABLED LoopExhausted

C9_Witness ==
    /\ result.kind = "apology"
    /\ Len(result.function_calls) >= 3
    /\ trace.before # <<>>

\* a call whose dispatch raises TypeError: a declared tool whose arguments do
\* not fit
DispatchRaises(fc) == fc.name \in functions_map /\ ~WellFormed(fc)

\* C10: every call the model requested has exactly one entry in the tool-call
\* record list, in the order requested, and a call whose dispatch raised has
\* an error entry.
C10_OneRecordPerCall ==
    InRequest =>
        LET calls == RequestedCalls(NewTurns) IN
        /\ NamesOf(function_calls_made) = NamesOf(calls)
        /\ \A i \in DOMAIN calls :
              (i \in DOMAIN function_calls_made /\ DispatchRaises(calls[i]))
                  => "error" \in function_calls_made[i].fields

\* the results with which a tool says that it refused the path, that the
\* subprocess timed out or could not be run, or that the file system failed
ToolFailureTags == {"CannotWriteOutside", "CannotExecuteOutside", "ErrorExecuting", "Error"}

\* C11: a tool call that ends in a containment violation, a timeout or a
\* failure inside the tool has a record carrying "error" and not "success".
C11_FailuresRecordedAsErrors ==
    InRequest =>
        LET parts == AnsweredParts(NewTurns) IN
        /\ Len(parts) = Len(function_calls_made)
        /\ \A i \in DOMAIN parts :
              parts[i].value.tag \in ToolFailureTags =>
                  /\ "error" \in function_calls_made[i].fields
                  /\ "success" \notin function_calls_made[i].fields

\* the tool responses of runs that started a process
RunTags == {"ErrorExecuting", "StdoutStderr", "StdoutStderrExitCode"}

ReturnsFromDispatch(fc) == fc.name \notin functions_map \/ fc.hasArgs

\* C19: a run that exceeds the timeout is not started again and has an error
\* outcome and record; every call that call_function returns from, before
\* and after the timeout, in this and in later iterations, is answered in
\* order.
C19_TimeoutIsAnErrorAndNothingMore ==
    InRequest =>
        LET parts == AnsweredParts(NewTurns)
            runs == SelectSeq(parts, LAMBDA x : x.value.tag \in RunTags)
        IN  /\ Len(parts) = Len(function_calls_made)
            /\ Len(trace.spawned) = Len(runs)
            /\ \A i \in DOMAIN runs :
                  runs[i].value.tag = "ErrorExecuting" <=> trace.spawned[i].ends = "timeout"
            /\ NamesOf(parts) =
                  NamesOf(SelectSeq(RequestedCalls(NewTurns), ReturnsFromDispatch))
            /\ \A i \in DOMAIN parts :
                  parts[i].value.tag = "ErrorExecuting" =>
                      /\ parts[i].key = "error"
                      /\ "error" \in function_calls_made[i].fields
                      /\ "success" \notin function_calls_made[i].fields

IsUndeclared(x) == x.name \notin functions_map

\* C12: a call of an undeclared tool never raises and leaves the file system
\* alone: call_function returns the "unknown function" error outcome and
\* record, and every such call of the request is answered and recorded, in
\* order, among the other calls.
C12_UnknownToolIsAnswered ==
    /\ LET fs == [files |-> files, dirs |-> dirs]
           r == call_function(Undeclared, "exit0", fs)
       IN  /\ ~r.raised
           /\ r.fs = fs
           /\ r.spawn = <<>>
           /\ r.content.key = "error"
           /\ r.content.value.tag = "UnknownFunction"
           /\ r.info.fields = {"name", "error"}
           /\ r.info.error = "Unknown function"
    /\ InRequest =>
          LET asked == SelectSeq(RequestedCalls(NewTurns), IsUndeclared)
              answered == SelectSeq(AnsweredParts(NewTurns), IsUndeclared)
              recorded == SelectSeq(function_calls_made, IsUndeclared)
          IN  /\ NamesOf(answered) = NamesOf(asked)
              /\ NamesOf(recorded) = NamesOf(asked)
              /\ \A i \in DOMAIN answered : answered[i].key = "error"
              /\ \A i \in DOMAIN recorded : recorded[i].fields = {"name", "error"}

\* an undeclared call was recorded as an error, the call after it in the same
\* response was executed, and the model was invoked again afterwards
C12_Witness ==
    /\ InRequest
    /\ trace.invocations >= 2
    /\ \E i \in DOMAIN function_calls_made :
          /\ IsUndeclared(function_calls_made[i])
          /\ i + 1 \in DOMAIN function_calls_made
          /\ function_calls_made[i + 1].name = "write_files"
          /\ AbsPath(OsPathJoin(WorkingDir, P_pkg_m_py)) \in DOMAIN files

-----------------------------------------------------------------------------
(* Properties of the rate limiter                                          *)

\* the handler has just checked an identified user and the clock has not moved
JustChecked == rpc \in {"allowed", "denied"} /\ ruser # NoUser /\ lastCheck.at = now

\* the request times of ruser within the last 60 seconds
InWindowTimes ==
    {user_rate_limits[i].request_time : i \in
        {j \in DOMAIN user_rate_limits :
            /\ user_rate_limits[j].user_id = ruser
            /\ user_rate_limits[j].request_time >= now - Seconds(60)}}

InWindowCount ==
    Cardinality({j \in DOMAIN user_rate_limits :
                    /\ user_rate_limits[j].user_id = ruser
                    /\ user_rate_limits[j].request_time >= now - Seconds(60)})

OldestInWindow == CHOOSE t \in InWindowTimes : \A x \in InWindowTimes : t <= x

\* what is left until oldest + 60 s + 60 s, in ticks
UntilUnlock == OldestInWindow + Seconds(60) + Seconds(60) - now

\* C4, as claimed: with fewer than 4 requests of the user in the last 60
\* seconds the request is allowed; with 4 it is denied, and the reported wait
\* is exactly oldest + 60 + 60 - now, never negative.
C4_WaitIsExact ==
    JustChecked =>
        /\ InWindowCount < 4 => rpc = "allowed"
        /\ InWindowCount >= 4 =>
              /\ rpc = "denied"
              /\ Seconds(lastCheck.seconds) = UntilUnlock
              /\ lastCheck.seconds >= 0

\* C4, amended: the reported wait is oldest + 60 + 60 - now cut down to whole
\* seconds (int()); it is never negative.
C4_WaitIsWholeSeconds ==
    JustChecked =>
        /\ InWindowCount < 4 => rpc = "allowed"
        /\ InWindowCount >= 4 =>
              /\ rpc = "denied"
              /\ Seconds(lastCheck.seconds) <= UntilUnlock
              /\ UntilUnlock < Seconds(lastCheck.seconds + 1)
              /\ lastCheck.seconds >= 0

\* a fifth request inside the window of four admitted ones is denied, at an
\* instant that is not a whole number of seconds after the oldest of them
C4_Witness ==
    /\ JustChecked
    /\ rpc = "denied"
    /\ InWindowCount = 4
    /\ Seconds(lastCheck.seconds) < UntilUnlock

\* C13: after a denial at t with reported wait w, every check for that user
\* before t + w is denied as well.
C13_DeniedUntilWaitIsOver ==
    (JustChecked /\ now < denials[ruser]) => rpc = "denied"

\* the number of requests of user u within the 60 seconds before t
InWindow(table, u, t) == Len(RequestsSince(table, u, t - Seconds(60)))

\* C15: a check adds no timestamp and leaves every user's count of in-window
\* requests as it was; record_user_request appends exactly one row, the given
\* user at "now"; nothing else changes the table.
C15_OnlyRecordAppends ==
    [][/\ (rpc = "idle" /\ rpc' # "idle") =>
            /\ Len(user_rate_limits') <= Len(user_rate_limits)
            /\ \A i \in DOMAIN user_rate_limits' :
                  \E j \in DOMAIN user_rate_limits :
                      user_rate_limits'[i] = user_rate_limits[j]
            /\ \A u \in Users :
                  InWindow(user_rate_limits', u, now) = InWindow(user_rate_limits, u, now)
       /\ (rpc = "allowed" /\ rpc' = "idle" /\ ruser # NoUser) =>
            user_rate_limits' =
                Append(user_rate_limits, [user_id |-> ruser, request_time |-> now])
       /\ (rpc = "denied" \/ now' # now) => user_rate_limits' = user_rate_limits]_vars

\* a check made more than 120 s after the first requests, with requests of
\* the user still in the window
C15_Witness ==
    /\ JustChecked
    /\ now > Seconds(120)
    /\ InWindowCount >= 2

\* C16: for a caller without a user identity the check answers allowed with
\* wait 0 and the recording stores nothing; neither changes the table.
C16_AnonymousIsExempt ==
    [][/\ (rpc = "idle" /\ rpc' # "idle" /\ ruser' = NoUser) =>
            /\ rpc' = "allowed"
            /\ lastCheck'.is_allowed
            /\ lastCheck'.seconds = 0
            /\ user_rate_limits' = user_rate_limits
       /\ (rpc = "allowed" /\ ruser = NoUser /\ rpc' = "idle") =>
            user_rate_limits' = user_rate_limits]_vars

\* an anonymous request is admitted while an identified user is held back
C16_Witness ==
    /\ rpc = "allowed"
    /\ ruser = NoUser
    /\ lastCheck.at = now
    /\ \E u \in Users :
          /\ InWindow(user_rate_limits, u, now) >= 4
          /\ denials[u] > now

\* a check of an identified user is made in this step
CheckStepOf(u) == rpc = "idle" /\ rpc' # "idle" /\ ruser' = u /\ u # NoUser

RowsOfUser(table, u) == LET Mine(row) == row.user_id = u IN SelectSeq(table, Mine)

NotOlderThan(table, t, seconds) ==
    LET Young(row) == t - row.request_time <= Seconds(seconds) IN SelectSeq(table, Young)

\* C24, as claimed: after check_user_rate_limit(user) the user's window holds
\* exactly those of its previous timestamps that are at most 2 * 60 + 60 = 180
\* seconds old, and the rows of every other user are as they were.
C24_PurgeAt180OwnRowsOnly ==
    [][\A u \in Users : CheckStepOf(u) =>
          /\ RowsOfUser(user_rate_limits', u) =
                 NotOlderThan(RowsOfUser(user_rate_limits, u), now,
                              2 * RATE_LIMIT_WINDOW_SECONDS + RATE_LIMIT_COOLDOWN_SECONDS)
          /\ \A v \in Users \ {u} :
                 RowsOfUser(user_rate_limits', v) = RowsOfUser(user_rate_limits, v)]_vars

\* C24, amended: after check_user_rate_limit(user) the table holds exactly
\* those of its previous rows, of every user, that are at most 120 seconds
\* old, in their order.
C24_PurgeAt120AllUsers ==
    [][\A u \in Users : CheckStepOf(u) =>
          user_rate_limits' = NotOlderThan(user_rate_limits, now, 120)]_vars

\* a check 121 seconds after the start: rows exactly 120 seconds old, one of
\* the checked user and one of another user, are still there, and nothing
\* older is
C24_Witness ==
    /\ JustChecked
    /\ now = Seconds(121)
    /\ \E i, j \in DOMAIN user_rate_limits :
          /\ user_rate_limits[i] = [user_id |-> ruser, request_time |-> Seconds(1)]
          /\ user_rate_limits[j].user_id # ruser
          /\ user_rate_limits[j].request_time = Seconds(1)
    /\ \A i \in DOMAIN user_rate_limits :
          user_rate_limits[i].request_time >= Seconds(1)

\* the rows of user u whose time lies in the 60 seconds that start at t
InSixtyFrom(table, u, t) ==
    {j \in DOMAIN table :
        /\ table[j].user_id = u
        /\ t <= table[j].request_time
        /\ table[j].request_time <= t + Seconds(RATE_LIMIT_WINDOW_SECONDS)}

\* no 60-second window that starts at a recorded request of u holds more than
\* 4 recorded requests of u
AtMostFourPerWindow(table, u) ==
    \A i \in DOMAIN table :
        table[i].user_id = u =>
            Cardinality(InSixtyFrom(table, u, table[i].request_time)) <= RATE_LIMIT_REQUESTS

\* C28: under any interleaving of concurrent chat requests of the same
\* identified user, each doing the check and then the recording as two
\* transactions, at most 4 requests of that user are admitted with timestamps
\* inside any one 60-second window.
C28_AtMostFourAdmittedConcurrently == AtMostFourPerWindow(user_rate_limits, SameUser)

\* C29: for requests of an identified user handled one after another (check,
\* then record only when allowed), in every reachable state no 60-second
\* window contains more than 4 recorded timestamps of that user, however the
\* requests are spaced in time.
C29_AtMostFourRecordedPerWindow ==
    \A u \in Users : AtMostFourPerWindow(user_rate_limits, u)

\* four requests of a user at the start, and a fifth admitted half a second
\* after their window has passed
C29_Witness ==
    \E u \in Users :
        /\ Cardinality(InSixtyFrom(user_rate_limits, u, 0)) = RATE_LIMIT_REQUESTS
        /\ \E i \in DOMAIN user_rate_limits :
              user_rate_limits[i] =
                  [user_id |-> u,
                   request_time |-> Seconds(RATE_LIMIT_WINDOW_SECONDS) + 1]
        /\ rpc = "idle"

\* C32: whenever check_user_rate_limit denies, the reported wait is between
\* 60 and 120 seconds inclusive: the oldest timestamp in the window is at most
\* 60 seconds old and none lies in the future, so a denial never reports 0.
C32_DeniedWaitBetween60And120 ==
    (JustChecked /\ rpc = "denied") =>
        /\ lastCheck.seconds >= RATE_LIMIT_COOLDOWN_SECONDS
        /\ lastCheck.seconds <= RATE_LIMIT_WINDOW_SECONDS + RATE_LIMIT_COOLDOWN_SECONDS
        /\ lastCheck.seconds # 0

\* a denial at the lower edge: the oldest of the four requests is exactly 60
\* seconds old and the wait reported is 60
C32_Witness ==
    /\ JustChecked
    /\ rpc = "denied"
    /\ now = Seconds(RATE_LIMIT_WINDOW_SECONDS)
    /\ OldestInWindow = 0
    /\ lastCheck.seconds = 60

\* C14: a request that the rate-limit check denies is not recorded, does not
\* start process_chat, invokes no model, and changes no quota counter and no
\* session history: the check adds no row, and the handler's only step after
\* it ends the request.
C14_DeniedRequestHasNoEffect ==
    [][/\ rpc' = "denied" =>
            /\ Len(user_rate_limits') <= Len(user_rate_limits)
            /\ chatVars' = chatVars
            /\ quotaVars' = quotaVars
       /\ rpc = "denied" =>
            /\ rpc' \in {"denied", "idle"}
            /\ user_rate_limits' = user_rate_limits
            /\ chatVars' = chatVars
            /\ quotaVars' = quotaVars]_vars

\* a request is denied after an admitted one has run the loop
C14_Witness ==
    /\ rpc = "denied"
    /\ cpc = "returned"
    /\ trace.invocations >= 2
    /\ Len(function_calls_made) >= 1

\* C26: each iteration in which the model requested tool calls extends the
\* working history by exactly two turns: the model's tool-call turn, then one
\* tool-response turn whose parts are the outcomes of all calls of that
\* response, in request order.
C26_TwoTurnsPerToolIteration ==
    [][(cpc = "loop" /\ messages' # messages) =>
          /\ Len(messages') = Len(messages) + 2
          /\ SubSeq(messages', 1, Len(messages)) = messages
          /\ LET asked == messages'[Len(messages) + 1]
                 answered == messages'[Len(messages) + 2]
             IN  /\ asked.role = "model"
                 /\ asked.calls # <<>>
                 /\ answered.role = "user"
                 /\ answered.calls = <<>>
                 /\ NamesOf(answered.parts) = NamesOf(asked.calls)]_vars

\* what an iteration whose response has neither tool calls nor non-empty text
\* does in any case: nothing is returned, stored, dispatched or added to the
\* working history; one iteration and one quota increment are used up
EmptyResponseStep ==
    LET before(k) == get_request_count(k[1], k[2], api_requests)
        after(k) == get_request_count(k[1], k[2], api_requests')
    IN  /\ cpc' = "loop"
        /\ result' = result
        /\ messages' = messages
        /\ sessions' = sessions
        /\ function_calls_made' = function_calls_made
        /\ files' = files
        /\ count' = count + 1
        /\ trace'.invocations = trace.invocations + 1
        /\ \E k \in Models \X Days :
              /\ after(k) = before(k) + 1
              /\ \A x \in (Models \X Days) \ {k} : after(x) = before(x)

\* C31, as claimed: after a response with neither tool calls nor non-empty
\* text process_chat has not returned and has not changed the working
\* history; it has used up one iteration and one quota increment, and it
\* invokes the model again with the same history.
C31_EmptyResponseInvokesAgain ==
    [][trace'.empty # trace.empty =>
          /\ EmptyResponseStep
          /\ LoopContinues(count')]_vars

\* C31, amended: the same, except that the model is invoked again only when
\* the iteration was not the 15th; after the 15th the loop is over and the
\* apology is what follows.
C31_EmptyResponseUsesAnIteration ==
    [][trace'.empty # trace.empty =>
          /\ EmptyResponseStep
          /\ count < 15 => LoopContinues(count')
          /\ count = 15 => ~LoopContinues(count')]_vars

\* fifteen responses in a row held nothing: the working history is still the
\* stored one plus the user message, and the loop is over
C31_Witness ==
    /\ cpc = "loop"
    /\ trace.empty = 15
    /\ count = 16
    /\ messages = Append(trace.before, UserTurn(request.message))

\* C25: in every loop iteration the tier returned by get_current_model is the
\* tier whose counter is incremented and the tier the model is invoked with;
\* every model round-trip, one that fails included, adds exactly one to
\* exactly that counter and changes no other, and the counters change in no
\* other step, so their sum grows with the number of invocations attempted.
C25_OneIncrementPerInvocation ==
    [][LET selected == get_current_model(today, api_requests)
           before(k) == get_request_count(k[1], k[2], api_requests)
           after(k) == get_request_count(k[1], k[2], api_requests')
       IN  /\ trace'.invocations # trace.invocations =>
                /\ trace'.invocations = trace.invocations + 1
                /\ trace'.model = selected
                /\ after(<<selected, today>>) = before(<<selected, today>>) + 1
                /\ \A k \in (Models \X Days) \ {<<selected, today>>} : after(k) = before(k)
           /\ trace'.invocations = trace.invocations => api_requests' = api_requests]_vars

\* the lite tier was used up during the request, a later round-trip went to
\* the main tier and failed, and it was counted on the main tier
C25_Witness ==
    /\ cpc = "returned"
    /\ trace.failed
    /\ trace.model = MODEL_MAIN
    /\ trace.invocations >= 2
    /\ get_request_count(MODEL_LITE, today, api_requests) = DAILY_LIMIT
    /\ get_request_count(MODEL_MAIN, today, api_requests) = trace.invocations - 1

-----------------------------------------------------------------------------
(* Calls of process_chat one after another.  sessions is a module-level    *)
(* dict, so what one call stored is what the next call starts from.  A     *)
(* call that was answered at its first round-trip is followed by the next  *)
(* call; that next call is unrestricted.                                   *)

\* a further call is followed while at most this many exchanges are stored
MaxStoredBefore == 1

RECURSIVE TotalStored(_)
TotalStored(sids) ==
    IF sids = {} THEN 0
    ELSE LET sid == CHOOSE x \in sids : TRUE
         IN Len(sessions[sid]) + TotalStored(sids \ {sid})

\* "return final_response, function_calls_made": the locals of the call are
\* gone, sessions and the files stay
NextCall ==
    /\ cpc = "returned"
    /\ result.kind = "text"
    /\ trace.invocations = 1
    /\ TotalStored(DOMAIN sessions) <= 2 * MaxStoredBefore
    /\ cpc' = "idle"
    /\ request' = [session_id |-> "", message |-> <<>>]
    /\ messages' = <<>>
    /\ function_calls_made' = <<>>
    /\ count' = 0
    /\ result' = NoResult
    /\ trace' = NoTrace
    /\ UNCHANGED <<sessions, toolVars, quotaVars, rateVars>>

\* what the user sends: the question in a new session, a follow-up in a
\* session that has a history
FollowUp == <<"?">>
MessageIn(sid) == IF StoredHistory(sid) = <<>> THEN Question ELSE FollowUp

CallsNext ==
    \/ \E sid \in SessionIds : ProcessChatStart(sid, MessageIn(sid))
    \/ LoopStep
    \/ NextCall

\* C22: the stored history of a session only grows by appending: in every
\* step of every sequence of process_chat calls each session stays, and its
\* history before the step is a prefix of its history after it, so no stored
\* turn is changed or removed.
C22_StoredOnlyGrows ==
    [][\A sid \in DOMAIN sessions :
          /\ sid \in DOMAIN sessions'
          /\ IsPrefixSeq(sessions[sid], sessions'[sid])]_vars

\* a second call, one with tool calls, has committed on top of what the first
\* call stored
C22_Witness ==
    /\ cpc = "returned"
    /\ result.kind = "text"
    /\ Len(trace.before) = 2
    /\ Len(StoredHistory(request.session_id)) = 4
    /\ request.message = FollowUp
    /\ function_calls_made # <<>>

\* turn i of a stored history is a plain text turn of the role its place asks
\* for: user at the odd places, model at the even ones
PlainTurnAt(history, i) ==
    /\ history[i].role = (IF i % 2 = 1 THEN "user" ELSE "model")
    /\ history[i].calls = <<>>
    /\ history[i].parts = <<>>

\* C30: in every reachable state the stored history of each session has even
\* length and alternates user turn, model text turn, starting with a user
\* turn, and holds no tool-call and no tool-response turn; a process_chat call
\* has added either no turn or exactly its user turn followed by one model
\* text turn.
C30_StoredAlternates ==
    /\ \A sid \in DOMAIN sessions :
          /\ Len(sessions[sid]) % 2 = 0
          /\ \A i \in DOMAIN sessions[sid] : PlainTurnAt(sessions[sid], i)
    /\ InRequest =>
          LET stored == StoredHistory(request.session_id) IN
          \/ stored = trace.before
          \/ /\ Len(stored) = Len(trace.before) + 2
             /\ SubSeq(stored, 1, Len(trace.before)) = trace.before
             /\ stored[Len(stored) - 1] = UserTurn(request.message)
             /\ stored[Len(stored)].role = "model"

\* a call that went through two tool rounds has committed its exchange on top
\* of the one stored by an earlier call: five working turns, two stored
C30_Witness ==
    /\ cpc = "returned"
    /\ result.kind = "text"
    /\ ToolRounds(messages) = 2
    /\ Len(StoredHistory(request.session_id)) = 4
    /\ Len(messages) = Len(trace.before) + 5

-----------------------------------------------------------------------------
(* Termination of process_chat.  The loop is straight-line Python: once    *)
(* process_chat is entered the interpreter runs the next iteration, and    *)
(* every generate_content call and every tool call is taken to return or   *)
(* raise.  That is weak fairness of the loop's steps.                      *)

\* the three ways out, told by what the call did and not only by its result
Done ==
    /\ result.kind = "text"
    /\ ~trace.failed
    /\ StoredHistory(request.session_id) =
           trace.before \o <<UserTurn(request.message), ModelTextTurn(result.text)>>
Aborted ==
    /\ result.kind = "error"
    /\ trace.failed
    /\ StoredHistory(request.session_id) = trace.before
Exhausted ==
    /\ result.kind = "apology"
    /\ ~trace.failed
    /\ trace.invocations = 15
    /\ StoredHistory(request.session_id) = trace.before

ExactlyOneExit ==
    \/ Done /\ ~Aborted /\ ~Exhausted
    \/ Aborted /\ ~Done /\ ~Exhausted
    \/ Exhausted /\ ~Done /\ ~Aborted

\* C21: every process_chat call that has entered its loop eventually returns,
\* and it has then left in exactly one of three ways: Done (a text-only
\* response was returned and the session committed), Aborted (the model
\* invocation raised) or Exhausted (15 iterations were used).
C21_TerminatesInOneOfThreeWays ==
    (cpc = "loop") ~> (cpc = "returned" /\ ExactlyOneExit)

\* a call that used all 15 iterations, two of them on tool calls, and returned
C21_Witness ==
    /\ cpc = "returned"
    /\ Exhausted
    /\ ToolRounds(messages) = 2
    /\ count = 16

-----------------------------------------------------------------------------
(* Specifications.  Each runs one component; the others stay as they start. *)

\* no request has been made yet
ChatInitIdle == ChatInit /\ sessions = [x \in {} |-> <<>>]

QuotaSpecInit == QuotaInit /\ ToolInit /\ RateInit /\ ChatInitIdle

QuotaSpec == QuotaSpecInit /\ [][QuotaNext]_vars

ToolSpecInit == ToolInit /\ QuotaInit /\ RateInit /\ ChatInitIdle

ToolSpec == ToolSpecInit /\ [][ToolNext]_vars

QuotaConcSpecInit == ConcInit /\ ToolInit /\ RateInit /\ ChatInitIdle

QuotaConcSpec == QuotaConcSpecInit /\ [][ConcNext]_vars

RateSpecInit == RateInit /\ ToolInit /\ QuotaInit /\ ChatInitIdle

RateSpec == RateSpecInit /\ [][RateNext]_vars

\* a request arrives on a day on which no or 19 model calls have been counted
SpecInit ==
    /\ ChatInit
    /\ ToolInit
    /\ RateInit
    /\ QuotaStart({TableAfter(0, 1), TableAfter(19, 1)}, {SeqCaller})

Spec == SpecInit /\ [][ChatNext]_vars

\* a request on a fresh day, with the loop never left standing between two
\* statements
LiveInit ==
    /\ ChatInitIdle
    /\ ToolInit
    /\ RateInit
    /\ QuotaStart({TableAfter(0, 1)}, {SeqCaller})

LiveSpec == LiveInit /\ [][ChatNext]_vars /\ WF_vars(LoopStep)

HandlerInit ==
    /\ ChatInitIdle
    /\ ToolInit
    /\ QuotaStart({TableAfter(0, 1)}, {SeqCaller})
    /\ user_rate_limits = RowsOf("u1", RATE_LIMIT_REQUESTS)
    /\ now = 0
    /\ rpc = "idle"
    /\ ruser = NoUser
    /\ lastCheck = NoCheck
    /\ denials = [u \in Users |-> 0]
    /\ hpc = [p \in Procs |-> IdleHandler]

HandlerSpec == HandlerInit /\ [][HandlerNext]_vars

RateConcSpecInit == RateInit /\ ToolInit /\ QuotaInit /\ ChatInitIdle

RateConcSpec == RateConcSpecInit /\ [][RateConcNext]_vars

\* the first call of a server process: nothing is stored yet
CallsInit ==
    /\ ChatInitIdle
    /\ ToolInit
    /\ RateInit
    /\ QuotaStart({TableAfter(0, 1)}, {SeqCaller})

CallsSpec == CallsInit /\ [][CallsNext]_vars

====
